---- MODULE Spec2Model ----
(***************************************************************************)
(* GenomeVedic FASTA-to-particles converter                                *)
(* (backend/scripts/fasta_to_particles.py).                                *)
(*                                                                         *)
(* Numbers.  The converter computes in binary floating point.  Here a      *)
(* coordinate c stands for the real number c / Scale (Scale = 10^9), and   *)
(* it is the floor of the float the code holds; a rounded coordinate (the  *)
(* result of round(v, 6)) is in units of 10^-6.  The products              *)
(* radius * cos(theta) and radius * sin(theta), and the values of          *)
(* sqrt(n) * log2(n), are tabulated from the code's own arithmetic for the *)
(* positions and counts of the model.  int(i * step) is the exact floor    *)
(* except at the tabulated arguments where the float product falls just    *)
(* below an integer.                                                       *)
(***************************************************************************)
EXTENDS Integers, Sequences, FiniteSets, TLC

(***************************************************************************)
(* Bounds of the model                                                     *)
(***************************************************************************)
\* longest enumerated sequence of a FASTA record
MaxLen == 3
\* largest position of the dense range given to sequence_to_3d
MaxPos == 24
\* largest particle count given to generate_lod_levels on its own
MaxTotal == 32
\* length of the long FASTA record
LongLen == 20
\* number of invocations of fasta_to_particles in one process
MaxRuns == 2
\* largest count given to williams_batch_size on its own
MaxCount == 40
\* largest max_retries of the Terra client
MaxRetriesBound == 3
\* number of method calls made on one Galaxy client
MaxCalls == 3
\* longest chromosome list given to generate_full_genome
MaxChromosomes == 3

(***************************************************************************)
(* Constants of the program                                                *)
(***************************************************************************)
\* the float 1.0, in coordinate units
Scale == 1000000000
\* VOXEL_SIZE = 0.01, in coordinate units
VOXEL_SIZE == 10000000
\* voxels per axis (the literal 100 of calculate_voxel_id)
VoxelsPerAxis == 100
\* the step 0.02 of base_offset, in coordinate units
BaseOffsetStep == 20000000
\* one rounded unit (10^-6), in coordinate units
MicroUnit == 1000

Max(a, b) == IF a >= b THEN a ELSE b
Min(a, b) == IF a <= b THEN a ELSE b

\* a lookup whose default is the first class instead of the wildcard
BASE_MAP_default0(s) ==
  CASE s = "A" -> 0
    [] s = "C" -> 1
    [] s = "G" -> 2
    [] s = "T" -> 3
    [] s = "N" -> 4
    [] OTHER -> 0

\* BASE_MAP.get(s, 4)
BASE_MAP(s) ==
  CASE s = "A" -> 0
    [] s = "C" -> 1
    [] s = "G" -> 2
    [] s = "T" -> 3
    [] s = "N" -> 4
    [] OTHER -> 4

Gray == <<5, 5, 5>>

\* BASE_COLORS.get(s, [0.5, 0.5, 0.5]); components in tenths
BASE_COLORS(s) ==
  CASE s = "A" -> <<10, 0, 0>>
    [] s = "C" -> <<0, 10, 0>>
    [] s = "G" -> <<0, 0, 10>>
    [] s = "T" -> <<10, 10, 0>>
    [] s = "N" -> Gray
    [] OTHER -> Gray

\* str.upper() on one character
Upper(s) ==
  CASE s = "a" -> "A"
    [] s = "c" -> "C"
    [] s = "g" -> "G"
    [] s = "t" -> "T"
    [] s = "n" -> "N"
    [] s = "x" -> "X"
    [] OTHER -> s

\* str.upper() on a string
UpperStr(t) == [i \in 1..Len(t) |-> Upper(t[i])]

\* the plain remainder modulo 9
digital_root_mod9(n) == n % 9

digital_root(n) == IF n = 0 THEN 9 ELSE 1 + ((n - 1) % 9)

(***************************************************************************)
(* radius * cos(theta) and radius * sin(theta), with                       *)
(* theta = position * GOLDEN_ANGLE and radius = sqrt(position) / 10000,    *)
(* for positions 0 .. 47 (entry position + 1) and for the far positions.   *)
(***************************************************************************)
FarPositions == {10421, 13686, 23184, 49752, 10000008}

RadiusCosDense ==
 << 0, -73737, 12363, 105384, -196943, 188669, -63590, -121945, 265680,
    -277304, 134031, 99261, -299718, 352145, -215194, -49772, 305859,
    -411959, 300730, -20135, -286534, 454165, -385017, 105259, 243567,
    -476347, 462884, -200604, -179093, 476689, -529632, 301125, 95813,
    -454179, 581104, -401749, 2926, 408691, -613811, 497451, -113200,
    -341034, 625026, -583407, 230582, 252927, -612890, 655135 >>

RadiusSinDense ==
 << 0, 67549, -140880, 137455, -34837, -120017, 236550, -234797, 97025,
    114466, -286419, 316460, -173693, -77419, 306090, -384087, 257778,
    17035, -299268, 435424, -343364, 61107, 267884, -467890, 425058,
    -151968, -213865, 479331, -497922, 250534, 139609, -468320, 557512,
    -351742, -48144, 434278, -599993, 450523, -56888, -377548, 622242,
    -541938, 171293, 299394, -621958, 621311, -290460, -201986 >>

RadiusCos(position) ==
  CASE position = 10421 -> -10000156
    [] position = 13686 -> -10000442
    [] position = 23184 -> -15226294
    [] position = 49752 -> -20000233
    [] position = 10000008 -> 155417786
    [] OTHER -> RadiusCosDense[position + 1]

RadiusSin(position) ==
  CASE position = 10421 -> 2051070
    [] position = 13686 -> -6070517
    [] position = 23184 -> -462
    [] position = 49752 -> -9874751
    [] position = 10000008 -> 275400420
    [] OTHER -> RadiusSinDense[position + 1]

\* math.fmod-like remainder, which keeps the sign of the dividend
FloatModTrunc(v, m) == IF v < 0 THEN 0 - ((0 - v) % m) ELSE v % m

\* Python's v % m on floats, m > 0: the result has the sign of m.  For a
\* negative v the code returns the float sum fmod(v, m) + m, which rounds
\* up to m itself only when -2^-54 <= v < 0; no operand of the model is
\* that close to zero from below (the smallest is a whole unit below).
FloatMod(v, m) == v % m

\* int(a / b): truncation toward zero, b > 0
IntDiv(a, b) == IF a >= 0 THEN a \div b ELSE 0 - ((0 - a) \div b)

sequence_to_3d(sequence, position) ==
  LET root == digital_root(position)
      base_offset == BASE_MAP(Upper(sequence)) * BaseOffsetStep
      x == FloatMod(RadiusCos(position) + base_offset, Scale)
      y == FloatMod(RadiusSin(position) + base_offset, Scale)
      z == FloatMod(root * (Scale \div 10) + position * 10, Scale)
  IN <<x, y, z>>

\* the k in 0..99 at which the float quotient (k / 100) / 0.01 is just
\* below k, so that int() of it is k - 1
VoxelQuotientBelow == {29, 47, 57, 58, 59, 94}

\* int(v / VOXEL_SIZE) for a coordinate v: the float quotient, truncated
VoxelAxis(v) ==
  IF v % VOXEL_SIZE = 0 /\ (v \div VOXEL_SIZE) \in VoxelQuotientBelow
  THEN (v \div VOXEL_SIZE) - 1
  ELSE IntDiv(v, VOXEL_SIZE)

\* a linearisation with the wrong stride on the z axis
calculate_voxel_id_stride(x, y, z) ==
  IntDiv(x, VOXEL_SIZE) + IntDiv(y, VOXEL_SIZE) * VoxelsPerAxis
    + IntDiv(z, VOXEL_SIZE) * VoxelsPerAxis * VoxelsPerAxis * VoxelsPerAxis

calculate_voxel_id(x, y, z) ==
  LET voxel_x == VoxelAxis(x)
      voxel_y == VoxelAxis(y)
      voxel_z == VoxelAxis(z)
  IN voxel_x + voxel_y * VoxelsPerAxis
       + voxel_z * VoxelsPerAxis * VoxelsPerAxis

\* int(sqrt(n) * log2(n)) for n = 1 .. 48
WilliamsDense ==
 << 0, 1, 2, 4, 5, 6, 7, 8, 9, 10, 11, 12, 13, 14, 15, 16, 16, 17, 18, 19,
    20, 20, 21, 22, 23, 23, 24, 25, 26, 26, 27, 28, 28, 29, 30, 31, 31, 32,
    33, 33, 34, 34, 35, 36, 36, 37, 38, 38 >>

\* int(sqrt(n) * log2(n)) for n >= 1
SqrtTimesLog2(n) == IF n = 1000000 THEN 19931 ELSE WilliamsDense[n]

\* the product returned without the lower limit of 1
williams_batch_size_nomax(n) == IF n <= 0 THEN 1 ELSE SqrtTimesLog2(n)

\* a guard that also catches n = 1 and returns 2
williams_batch_size_guard2(n) ==
  IF n <= 1 THEN 2 ELSE Max(1, SqrtTimesLog2(n))

williams_batch_size(n) == IF n <= 0 THEN 1 ELSE Max(1, SqrtTimesLog2(n))

\* round(v, 6): v in coordinate units, result in units of 10^-6.  No float
\* lies exactly on a tie, and the coordinate is the floor of the float, so a
\* remainder of half a unit or more rounds up.
Round6(v) == (v + (MicroUnit \div 2)) \div MicroUnit

(***************************************************************************)
(* Text.  A string is a sequence of one-character strings.  A line of a    *)
(* FASTA file, after strip(), is blank, a header ('>' followed by words)   *)
(* or a line of symbols.                                                   *)
(***************************************************************************)
Blank == [kind |-> "blank", words |-> <<>>, text |-> <<>>]
Header(w) == [kind |-> "header", words |-> w, text |-> <<>>]
Data(t) == [kind |-> "data", words |-> <<>>, text |-> t]

\* the value None and a present value v
None == <<>>
Some(v) == <<v>>

\* sequences[name] = value on an insertion-ordered dict
DictPut(d, name, value) ==
  IF \E j \in 1..Len(d) : d[j].name = name
  THEN [j \in 1..Len(d) |->
          IF d[j].name = name THEN [name |-> name, seq |-> value] ELSE d[j]]
  ELSE Append(d, [name |-> name, seq |-> value])

\* the state of read_fasta before its first line
ReadStart ==
  [sequences |-> <<>>, current_name |-> None, current_seq |-> <<>>,
   err |-> "none"]

\* one iteration of the loop over the lines of the file
ReadLine(st, line) ==
  IF st.err # "none" \/ line.kind = "blank" THEN st
  ELSE IF line.kind = "header" THEN
    LET saved == IF st.current_name # None
                 THEN DictPut(st.sequences, st.current_name[1], st.current_seq)
                 ELSE st.sequences
    IN IF line.words = <<>>
       THEN [st EXCEPT !.sequences = saved, !.err = "IndexError"]
       ELSE [st EXCEPT !.sequences = saved,
                       !.current_name = Some(line.words[1]),
                       !.current_seq = <<>>]
  ELSE [st EXCEPT !.current_seq = st.current_seq \o UpperStr(line.text)]

RECURSIVE ReadLines(_, _, _)
ReadLines(lines, i, st) ==
  IF i > Len(lines) THEN st ELSE ReadLines(lines, i + 1, ReadLine(st, lines[i]))

\* read_fasta(file_path): the dict of sequences, or the error raised
read_fasta(file) ==
  IF ~file.exists THEN [ReadStart EXCEPT !.err = "FileNotFoundError"]
  ELSE
    LET st == ReadLines(file.lines, 1, ReadStart)
    IN IF st.err = "none" /\ st.current_name # None
       THEN [st EXCEPT !.sequences =
               DictPut(st.sequences, st.current_name[1], st.current_seq)]
       ELSE st

(***************************************************************************)
(* generate_lod_levels                                                     *)
(***************************************************************************)
\* <<total, target, i>> at which the float i * (total / target) is just
\* below the integer i * total / target (totals up to 48)
StepProductBelow ==
  { <<30, 22, 11>>, <<30, 26, 13>>, <<45, 33, 11>>, <<45, 33, 22>>,
    <<45, 39, 13>>, <<45, 39, 26>> }

\* the step taken upside down: target / total
StepIndex_inverted(i, total, target) == (i * target) \div total

\* int(i * step) with step = total / target, 0 < target < total
StepIndex(i, total, target) ==
  IF <<total, target, i>> \in StepProductBelow
  THEN ((i * total) \div target) - 1
  ELSE (i * total) \div target

\* list(range(n)), as positions
Range(n) == [i \in 1..Max(n, 0) |-> i - 1]

\* every particle, counted by the target instead of the total
LodTier_target(total, target) ==
  IF target >= total THEN Range(target)
  ELSE [i \in 1..Max(target, 0) |-> StepIndex(i - 1, total, target)]

\* the tier of one target
LodTier(total, target) ==
  IF target >= total THEN Range(total)
  ELSE [i \in 1..Max(target, 0) |-> StepIndex(i - 1, total, target)]

\* the tiers keyed from the last target to the first
generate_lod_levels_reversed(parts, target_counts) ==
  LET total == Len(parts)
  IN IF \E k \in 1..Len(target_counts) :
          target_counts[k] = 0 /\ target_counts[k] < total
     THEN [err |-> "ZeroDivisionError", lod_levels |-> <<>>]
     ELSE [err |-> "none",
           lod_levels |-> [k \in 0..(Len(target_counts) - 1) |->
                             LodTier(total,
                                     target_counts[Len(target_counts) - k])]]

\* generate_lod_levels(particles, target_counts): the dict lod_id -> indices
\* (lod_id = 0, 1, ...), or ZeroDivisionError at a target 0 < total
generate_lod_levels(parts, target_counts) ==
  LET total == Len(parts)
  IN IF \E k \in 1..Len(target_counts) :
          target_counts[k] = 0 /\ target_counts[k] < total
     THEN [err |-> "ZeroDivisionError", lod_levels |-> <<>>]
     ELSE [err |-> "none",
           lod_levels |-> [k \in 0..(Len(target_counts) - 1) |->
                             LodTier(total, target_counts[k + 1])]]

(***************************************************************************)
(* str(k) for an integer k: its decimal digits                             *)
(***************************************************************************)
Digit(d) ==
  CASE d = 0 -> "0" [] d = 1 -> "1" [] d = 2 -> "2" [] d = 3 -> "3"
    [] d = 4 -> "4" [] d = 5 -> "5" [] d = 6 -> "6" [] d = 7 -> "7"
    [] d = 8 -> "8" [] OTHER -> "9"

RECURSIVE DigitsOf(_)
DigitsOf(k) ==
  IF k < 10 THEN <<Digit(k)>> ELSE Append(DigitsOf(k \div 10), Digit(k % 10))

str(k) == IF k < 0 THEN <<"-">> \o DigitsOf(0 - k) ELSE DigitsOf(k)

\* the particle built by one iteration of the generation loop
particle_of(base, position) ==
  LET c == sequence_to_3d(base, position)
  IN [x |-> Round6(c[1]), y |-> Round6(c[2]), z |-> Round6(c[3]),
      base |-> base, pos |-> position,
      voxel |-> calculate_voxel_id(c[1], c[2], c[3]),
      color |-> BASE_COLORS(base)]

(***************************************************************************)
(* Inputs                                                                  *)
(***************************************************************************)
\* symbols of the enumerated sequences
Symbols == {"A", "C", "N", "X"}
\* symbols given to sequence_to_3d on its own
AllSymbols == {"A", "C", "G", "T", "N", "X", "a"}

SeqsUpTo(n) == UNION {[1..k -> Symbols] : k \in 1..n}

File(lines) == [exists |-> TRUE, lines |-> lines]
NoFile == [exists |-> FALSE, lines |-> <<>>]

\* one record named chr1 with one line of symbols
PlainFiles == {File(<<Header(<<"chr1">>), Data(t)>>) : t \in SeqsUpTo(MaxLen)}

\* a long record: A and C alternating
LongSeq == [i \in 1..LongLen |-> IF i % 2 = 1 THEN "A" ELSE "C"]

SpecialFiles ==
  { NoFile,
    File(<<>>),
    File(<<Header(<<"chr1">>)>>),
    File(<<Data(<<"A", "C", "G", "T">>)>>),
    File(<<Header(<<>>), Data(<<"A">>)>>),
    File(<<Header(<<"chr1">>), Header(<<"chr2">>), Data(<<"A", "C">>)>>),
    File(<<Blank, Header(<<"chr1", "test">>), Data(<<"a", "c">>), Blank,
           Data(<<"G", "t">>), Header(<<"chr2">>), Data(<<"T", "T">>)>>),
    File(<<Header(<<"chr1">>), Data(<<"A">>), Header(<<"chr2">>),
           Data(<<"T">>), Header(<<"chr1">>), Data(<<"C", "G">>)>>),
    File(<<Header(<<"chr1">>),
           Data(<<"A", "C", "G", "T", "N", "A", "C", "G">>)>>),
    File(<<Header(<<"chrL">>), Data(LongSeq)>>) }

Files == PlainFiles \cup SpecialFiles

\* max_particles: None or an integer
MaxParticlesChoices == {None} \cup {Some(m) : m \in {-1, 0, 1, 2, MaxLen + 1}}

\* lod_targets: None or a list of integers
LodTargetChoices ==
  {None} \cup {Some(l) : l \in {<<>>, <<2>>, <<0>>, <<-1>>, <<3, 1>>,
                                 <<1, 2, 5>>}}

\* the default of lod_targets
DefaultLodTargets == <<5000, 50000, 500000, 5000000>>

\* wall-clock durations of a run, in milliseconds; the clock advances
\* during a run
ElapsedChoices == {3, 12}

\* positions given to sequence_to_3d on its own
Positions == (0..MaxPos) \cup FarPositions

\* coordinates given to calculate_voxel_id on its own
AxisChoices ==
  {0, 1, VOXEL_SIZE - 1, VOXEL_SIZE, 10 * VOXEL_SIZE, 29 * VOXEL_SIZE,
   500000000,
   99 * VOXEL_SIZE - 1, 99 * VOXEL_SIZE, Scale - 1}

\* arguments given to digital_root on its own
RootArgs == Positions \cup {123}

\* counts given to williams_batch_size on its own
CountArgs == ((-2)..MaxCount) \cup {1000000}

\* the cut points of a partitioned pass over the long record: two or
\* three contiguous ranges
CutChoices ==
  {<<c>> : c \in 1..(LongLen - 1)} \cup {<<1, LongLen - 1>>, <<2, 10>>}

\* the ways the workers' buckets are merged
MergeChoices == {"stable_merge", "sort", "completion_order"}

\* session ids a server hands out; the empty string is falsy
SessionIds == {"s1", "s2", ""}

\* what urlopen and json.loads give for a request of the Galaxy client:
\* an HTTPError or URLError, or the decoded JSON object
Replies ==
  {[kind |-> "error", success |-> FALSE, session_id |-> None]}
    \cup [kind : {"json"}, success : BOOLEAN,
          session_id : {None} \cup {Some(i) : i \in SessionIds}]

\* chromosome lists given to generate_full_genome
ChromosomeLists ==
  UNION {[1..k -> {"chr1", "chr2"}] : k \in 0..MaxChromosomes}

\* particle counts of a chromosome
ParticleCounts == {0, 5}

\* the particle list of a run over n symbols N
ParticlesOfN(n) == [i \in 1..n |-> particle_of("N", i - 1)]

\* target lists given to generate_lod_levels on its own
TargetLists ==
  {<<t>> : t \in (-1)..(MaxTotal + 1)}
    \cup {<<2, 5>>, <<5, 2>>, <<2, 0>>, <<5, 2, 5>>, <<>>}

(***************************************************************************)
(* State                                                                   *)
(***************************************************************************)
VARIABLES
  call,          \* the function the caller invokes
  args,          \* its arguments
  pc,            \* "start", "loop", "lod", "build", "done", "failed"
  run,           \* number of the invocation, from 1
  prev,          \* outcome of the previous invocation, or None
  seq_name,      \* locals of fasta_to_particles
  sequence,
  seq_length,
  batch_size,
  pos,
  particles,
  spatial_hash,
  lod_levels,
  result,        \* None or Some(value returned)
  error,         \* "none" or the name of the exception raised
  stdout,        \* what the process has printed to sys.stdout
  stderr,        \* what the process has printed to sys.stderr
  exit_code,     \* None or Some(exit status of the process)
  workers,       \* the workers of a partitioned pass, in range order
  finished,      \* the workers that completed, in completion order
  attempt,       \* _make_request: the loop variable
  sent,          \* _make_request: the outcome of each request sent
  slept,         \* _make_request: the argument of each time.sleep
  session_id,    \* Galaxy client: self.session_id
  calls,         \* Galaxy client: the method calls made, with their outcomes
  results,       \* generate_full_genome: results
  processed,     \* generate_full_genome: the chromosomes taken by the loop
  summary        \* generate_full_genome: None or Some(summary written)

vars ==
  <<call, args, pc, run, prev, seq_name, sequence, seq_length, batch_size,
    pos, particles, spatial_hash, lod_levels, result, error, stdout,
    stderr, exit_code, workers, finished, attempt, sent, slept, session_id,
    calls, results, processed, summary>>

locals ==
  <<seq_name, sequence, seq_length, batch_size, pos, particles,
    spatial_hash, lod_levels>>

streams == <<stdout, stderr, exit_code>>

parallel == <<workers, finished>>

terra == <<attempt, sent, slept>>

galaxy == <<session_id, calls>>

genome == <<results, processed, summary>>

integrations == <<terra, galaxy, genome>>

\* locals before any assignment
LocalsUnset ==
  /\ seq_name = None
  /\ sequence = <<>>
  /\ seq_length = 0
  /\ batch_size = 0
  /\ pos = 0
  /\ particles = <<>>
  /\ spatial_hash = <<>>
  /\ lod_levels = <<>>

\* the entry points that run the conversion
Pipeline == {"fasta_to_particles", "main"}

InitArgs ==
  \/ /\ call = "fasta_to_particles"
     /\ args \in [fasta : Files, max_particles : MaxParticlesChoices,
                  lod_targets : LodTargetChoices]
  \/ /\ call = "main"
     /\ args \in [fasta : SpecialFiles, max_particles : MaxParticlesChoices,
                  lod_targets : LodTargetChoices, pretty : BOOLEAN]
  \/ /\ call = "sequence_to_3d"
     /\ args \in AllSymbols \X Positions
  \/ /\ call = "calculate_voxel_id"
     /\ args \in AxisChoices \X AxisChoices \X AxisChoices
  \/ /\ call = "generate_lod_levels"
     /\ args \in {<<ParticlesOfN(n), l>> : n \in 0..MaxTotal, l \in TargetLists}
  \/ /\ call = "digital_root"
     /\ args \in {<<n>> : n \in RootArgs}
  \/ /\ call = "_make_request"
     /\ args \in [max_retries : (-1)..MaxRetriesBound]
  \/ /\ call = "galaxy_client"
     /\ args = <<>>
  \/ /\ call = "generate_full_genome"
     /\ args \in [chromosomes : ChromosomeLists,
                  lod_levels : {DefaultLodTargets}]
  \/ /\ call = "partitioned_pass"
     /\ args \in [sequence : {LongSeq}, cuts : CutChoices,
                  merge : MergeChoices]
  \/ /\ call = "loop_body"
     /\ args \in Symbols \X Positions
  \/ /\ call = "williams_batch_size"
     /\ args \in {<<n>> : n \in CountArgs}

Init ==
  /\ InitArgs
  /\ pc = "start"
  /\ run = 1
  /\ prev = None
  /\ LocalsUnset
  /\ result = None
  /\ error = "none"
  /\ stdout = <<>>
  /\ stderr = <<>>
  /\ exit_code = None
  /\ workers = <<>>
  /\ finished = <<>>
  /\ attempt = 0
  /\ sent = <<>>
  /\ slept = <<>>
  /\ session_id = None
  /\ calls = <<>>
  /\ results = <<>>
  /\ processed = <<>>
  /\ summary = None

(***************************************************************************)
(* fasta_to_particles                                                      *)
(***************************************************************************)
\* the last n symbols in place of the first n
Slice_tail(t, n) ==
  IF n >= 0 THEN SubSeq(t, Len(t) - Min(n, Len(t)) + 1, Len(t))
  ELSE SubSeq(t, 1, Max(Len(t) + n, 0))

\* sequence[:n] (a negative n counts from the end)
Slice(t, n) ==
  IF n >= 0 THEN SubSeq(t, 1, Min(n, Len(t)))
  ELSE SubSeq(t, 1, Max(Len(t) + n, 0))

\* a spatial hash kept across invocations
NewSpatialHash_shared == spatial_hash

\* defaultdict(list), empty
NewSpatialHash == <<>>

\* append at the front of the bucket
HashAppend_front(h, voxel, position) ==
  IF voxel \in DOMAIN h THEN [h EXCEPT ![voxel] = <<position>> \o @]
  ELSE h @@ (voxel :> <<position>>)

\* assignment of a new one-element list in place of append
HashAppend_overwrite(h, voxel, position) ==
  IF voxel \in DOMAIN h THEN [h EXCEPT ![voxel] = <<position>>]
  ELSE h @@ (voxel :> <<position>>)

\* spatial_hash[voxel].append(position)
HashAppend(h, voxel, position) ==
  IF voxel \in DOMAIN h THEN [h EXCEPT ![voxel] = Append(@, position)]
  ELSE h @@ (voxel :> <<position>>)

\* the bucket of voxel k in the hash h, empty when absent
Bucket(h, k) == IF k \in DOMAIN h THEN h[k] ELSE <<>>

\* {str(k): v for k, v in d.items()}
StrKeys(d) ==
  [t \in {str(k) : k \in DOMAIN d} |-> d[CHOOSE k \in DOMAIN d : str(k) = t]]

\* lod_targets after the default is applied
EffectiveLodTargets(a) ==
  IF a.lod_targets = None THEN DefaultLodTargets ELSE a.lod_targets[1]

\* round(generation_time, 2): milliseconds to hundredths of a second
Round2(ms) == (ms + 5) \div 10

\* the loop reports its progress every 100000 positions
ProgressInterval == 100000

\* print(..., file=sys.stderr) of log lines, named by their fixed text
Log(stream, lines) == stream \o [i \in 1..Len(lines) |-> <<"log", lines[i]>>]

\* the raise of an exception out of the invoked function
Raise(e) ==
  /\ pc' = "failed"
  /\ error' = e
  /\ result' = None

\* lines 231-265: read the file, select and truncate the first sequence
Begin ==
  /\ call \in Pipeline
  /\ pc = "start"
  /\ LET rd == read_fasta(args.fasta)
     IN IF rd.err # "none"
        THEN /\ Raise(rd.err)
             /\ stderr' = Log(stderr, <<"Reading FASTA file">>)
             /\ UNCHANGED locals
        ELSE IF rd.sequences = <<>>
        THEN /\ Raise("ValueError")
             /\ stderr' = Log(stderr, <<"Reading FASTA file">>)
             /\ UNCHANGED locals
        ELSE
          LET name == rd.sequences[1].name
              full == rd.sequences[1].seq
              limited == args.max_particles # None
                           /\ args.max_particles[1] # 0
              length == IF limited
                        THEN Min(Len(full), args.max_particles[1])
                        ELSE Len(full)
          IN /\ seq_name' = Some(name)
             /\ seq_length' = length
             /\ sequence' = IF limited THEN Slice(full, length) ELSE full
             /\ batch_size' = williams_batch_size(length)
             /\ particles' = <<>>
             /\ spatial_hash' = NewSpatialHash
             /\ pos' = 0
             /\ pc' = "loop"
             /\ stderr' = Log(stderr,
                               <<"Reading FASTA file", "Sequence", "Length">>
                               \o (IF limited THEN <<"Limited to">> ELSE <<>>)
                               \o <<"Williams batch size",
                                    "Generating particles">>)
             /\ UNCHANGED <<lod_levels, result, error>>
  /\ UNCHANGED <<call, args, run, prev, stdout, exit_code,
                 parallel,
                 integrations>>

\* lines 267-283: one iteration of the generation loop
Step ==
  /\ call \in Pipeline
  /\ pc = "loop"
  /\ pos < seq_length
  /\ LET base == sequence[pos + 1]
         particle == particle_of(base, pos)
     IN /\ particles' = Append(particles, particle)
        /\ spatial_hash' = HashAppend(spatial_hash, particle.voxel, pos)
  /\ pos' = pos + 1
  /\ stderr' = IF (pos + 1) % ProgressInterval = 0
               THEN Log(stderr, <<"Processed">>)
               ELSE stderr
  /\ UNCHANGED <<call, args, pc, run, prev, seq_name, sequence, seq_length,
                 batch_size, lod_levels, result, error, stdout, exit_code,
                 parallel,
                 integrations>>

\* lines 291-296: the loop is exhausted; generate the LOD levels
GenerateLod ==
  /\ call \in Pipeline
  /\ pc = "loop"
  /\ ~(pos < seq_length)
  /\ LET r == generate_lod_levels(particles, EffectiveLodTargets(args))
     IN IF r.err # "none"
        THEN /\ Raise(r.err)
             /\ stderr' = Log(stderr, <<"Generated", "Generating LOD levels">>)
             /\ UNCHANGED lod_levels
        ELSE /\ lod_levels' = r.lod_levels
             /\ pc' = "build"
             /\ stderr' = Log(stderr,
                               <<"Generated", "Generating LOD levels">>
                               \o [k \in 1..Cardinality(DOMAIN r.lod_levels)
                                      |-> "LOD"])
             /\ UNCHANGED <<result, error>>
  /\ UNCHANGED <<call, args, run, prev, seq_name, sequence, seq_length,
                 batch_size, pos, particles, spatial_hash, stdout, exit_code,
                 parallel,
                 integrations>>

\* lines 298-324: build and return the output
BuildOutput ==
  /\ call \in Pipeline
  /\ pc = "build"
  /\ \E elapsed \in ElapsedChoices :
       result' = Some(
         [metadata |->
            [sequence_name |-> seq_name[1],
             length |-> seq_length,
             particles |-> Len(particles),
             lod_levels |-> [k \in 1..Cardinality(DOMAIN lod_levels) |->
                               Len(lod_levels[k - 1])],
             voxel_count |-> Cardinality(DOMAIN spatial_hash),
             voxel_size |-> VOXEL_SIZE,
             williams_batch_size |-> batch_size,
             generation_time |-> Round2(elapsed)],
          particles |-> particles,
          spatial_hash |-> StrKeys(spatial_hash),
          lod_levels |-> StrKeys(lod_levels)])
  /\ pc' = "done"
  /\ stderr' = Log(stderr,
                    <<"Total generation time", "Particles per second">>)
  /\ UNCHANGED <<call, args, run, prev, locals, error, stdout, exit_code,
                 parallel,
                 integrations>>

\* the caller invokes fasta_to_particles again with the same arguments
Rerun ==
  /\ call = "fasta_to_particles"
  /\ pc \in {"done", "failed"}
  /\ run < MaxRuns
  /\ run' = run + 1
  /\ prev' = Some([result |-> result, error |-> error])
  /\ pc' = "start"
  /\ result' = None
  /\ error' = "none"
  /\ UNCHANGED <<call, args, locals, streams, parallel,
                 integrations>>

(***************************************************************************)
(* main, from the parsed arguments on                                      *)
(***************************************************************************)
\* lines 349-352: the conversion returned; print the JSON document
MainPrint ==
  /\ call = "main"
  /\ pc = "done"
  /\ stdout' = Append(stdout, [json |-> result[1],
                               indent |-> IF args.pretty THEN Some(2)
                                          ELSE None])
  /\ exit_code' = Some(0)
  /\ pc' = "exited"
  /\ UNCHANGED <<call, args, run, prev, locals, result, error, stderr,
                 parallel,
                 integrations>>

\* an exception handler that reports the error and returns normally
MainExcept_return ==
  /\ call = "main"
  /\ pc = "failed"
  /\ stderr' = Append(stderr, <<"ERROR", error>>)
  /\ exit_code' = Some(0)
  /\ pc' = "exited"
  /\ UNCHANGED <<call, args, run, prev, locals, result, error, stdout,
                 parallel,
                 integrations>>

\* lines 354-356: except Exception: print the error and exit with 1
MainExcept ==
  /\ call = "main"
  /\ pc = "failed"
  /\ stderr' = Append(stderr, <<"ERROR", error>>)
  /\ exit_code' = Some(1)
  /\ pc' = "exited"
  /\ UNCHANGED <<call, args, run, prev, locals, result, error, stdout,
                 parallel,
                 integrations>>

(***************************************************************************)
(* A partitioned generation pass: [0, T) is cut into contiguous ranges,    *)
(* each computed by an independent worker that runs the loop body of       *)
(* fasta_to_particles on its own particle list and spatial hash; the       *)
(* results are merged when every worker has completed.                     *)
(***************************************************************************)
\* the ranges [lo, hi) of the cut points, in ascending order
RangesOf(cuts, total) ==
  [w \in 1..(Len(cuts) + 1) |->
     [lo |-> IF w = 1 THEN 0 ELSE cuts[w - 1],
      hi |-> IF w = Len(cuts) + 1 THEN total ELSE cuts[w]]]

\* the particle lists of the workers 1..n, concatenated in range order
RECURSIVE ConcatInRangeOrder(_, _)
ConcatInRangeOrder(ws, n) ==
  IF n = 0 THEN <<>>
  ELSE ConcatInRangeOrder(ws, n - 1) \o ws[n].particles

\* the stable merge of two buckets keyed on position
RECURSIVE MergeByPosition(_, _)
MergeByPosition(a, b) ==
  IF a = <<>> THEN b
  ELSE IF b = <<>> THEN a
  ELSE IF Head(a) <= Head(b)
       THEN <<Head(a)>> \o MergeByPosition(Tail(a), b)
       ELSE <<Head(b)>> \o MergeByPosition(a, Tail(b))

\* a bucket sorted by position
RECURSIVE SortByPosition(_)
SortByPosition(t) ==
  IF t = <<>> THEN <<>>
  ELSE MergeByPosition(<<Head(t)>>, SortByPosition(Tail(t)))

\* the bucket of voxel k of the first n workers to complete, each worker's
\* members appended in completion order
RECURSIVE AppendInCompletionOrder(_, _, _, _)
AppendInCompletionOrder(ws, done, k, n) ==
  IF n = 0 THEN <<>>
  ELSE AppendInCompletionOrder(ws, done, k, n - 1)
         \o Bucket(ws[done[n]].spatial_hash, k)

\* the same bucket, merged by position as each worker completes
RECURSIVE MergeInCompletionOrder(_, _, _, _)
MergeInCompletionOrder(ws, done, k, n) ==
  IF n = 0 THEN <<>>
  ELSE MergeByPosition(MergeInCompletionOrder(ws, done, k, n - 1),
                       Bucket(ws[done[n]].spatial_hash, k))

\* the merged spatial hash
MergedHash(ws, done, merge) ==
  [k \in UNION {DOMAIN ws[w].spatial_hash : w \in DOMAIN ws} |->
     CASE merge = "stable_merge" ->
            MergeInCompletionOrder(ws, done, k, Len(done))
       [] merge = "sort" ->
            SortByPosition(AppendInCompletionOrder(ws, done, k, Len(done)))
       [] OTHER -> AppendInCompletionOrder(ws, done, k, Len(done))]

\* the ranges are handed to the workers
Fork ==
  /\ call = "partitioned_pass"
  /\ pc = "start"
  /\ workers' = [w \in DOMAIN RangesOf(args.cuts, Len(args.sequence)) |->
                   LET r == RangesOf(args.cuts, Len(args.sequence))[w]
                   IN [lo |-> r.lo, hi |-> r.hi, next |-> r.lo,
                       particles |-> <<>>, spatial_hash |-> NewSpatialHash]]
  /\ finished' = <<>>
  /\ pc' = "running"
  /\ UNCHANGED <<call, args, run, prev, locals, result, error, streams,
                 integrations>>

\* worker w runs the loop body on the next position of its range
WorkerStep(w) ==
  /\ call = "partitioned_pass"
  /\ pc = "running"
  /\ workers[w].next < workers[w].hi
  /\ LET position == workers[w].next
         particle == particle_of(args.sequence[position + 1], position)
     IN /\ workers' =
             [workers EXCEPT
                ![w].particles = Append(@, particle),
                ![w].spatial_hash = HashAppend(@, particle.voxel, position),
                ![w].next = position + 1]
        /\ finished' = IF position + 1 = workers[w].hi
                       THEN Append(finished, w)
                       ELSE finished
  /\ UNCHANGED <<call, args, pc, run, prev, locals, result, error, streams,
                 integrations>>

\* every worker has completed: merge
Join ==
  /\ call = "partitioned_pass"
  /\ pc = "running"
  /\ Len(finished) = Len(workers)
  /\ result' = Some([particles |-> ConcatInRangeOrder(workers, Len(workers)),
                     spatial_hash |->
                       MergedHash(workers, finished, args.merge)])
  /\ pc' = "done"
  /\ UNCHANGED <<call, args, run, prev, locals, error, streams, parallel,
                 integrations>>

(***************************************************************************)
(* Terra client: GenomeVedicAPIClient._make_request                        *)
(***************************************************************************)
\* a wait that grows linearly
BackoffWait_linear(k) == 2 * k

\* wait_time = 2 ** attempt
BackoffWait(k) == 2 ^ k

\* lines 94-115: one iteration of the retry loop.  The request either
\* returns a response that passes raise_for_status and json(), or raises a
\* requests.exceptions.RequestException.
Attempt ==
  /\ call = "_make_request"
  /\ pc = "start"
  /\ attempt < args.max_retries
  /\ \E outcome \in {"response", "RequestException"} :
       /\ sent' = Append(sent, outcome)
       /\ IF outcome = "response"
          THEN /\ result' = Some(<<"response", attempt>>)
               /\ pc' = "done"
               /\ UNCHANGED <<error, attempt, slept>>
          ELSE IF attempt = args.max_retries - 1
          THEN /\ Raise("GenomeVedicAPIError")
               /\ UNCHANGED <<attempt, slept>>
          ELSE /\ slept' = Append(slept, BackoffWait(attempt))
               /\ attempt' = attempt + 1
               /\ UNCHANGED <<pc, result, error>>
  /\ UNCHANGED <<call, args, run, prev, locals, streams, parallel, galaxy,
                 genome>>

\* line 117: the loop ended without a return or a raise
LoopExhausted ==
  /\ call = "_make_request"
  /\ pc = "start"
  /\ ~(attempt < args.max_retries)
  /\ Raise("GenomeVedicAPIError")
  /\ UNCHANGED <<call, args, run, prev, locals, streams, parallel,
                 integrations>>

(***************************************************************************)
(* Galaxy client: GenomeVedicAPIClient                                     *)
(***************************************************************************)
\* not self.session_id
NoSession(s) == s = None \/ s = Some("")

\* the record of one method call: how it ended, what it returned and how
\* many requests it sent
Called(method, outcome, value, requests) ==
  [method |-> method, outcome |-> outcome, value |-> value,
   requests |-> requests]

\* a create_session that forgets the session when it fails
create_session_reset(s, reply) ==
  IF reply.kind = "error" \/ ~reply.success
  THEN [outcome |-> "RuntimeError", session_id |-> None]
  ELSE IF reply.session_id = None
  THEN [outcome |-> "KeyError", session_id |-> None]
  ELSE [outcome |-> "returned", session_id |-> reply.session_id]

\* lines 61-75: the outcome of create_session and self.session_id after it
create_session(s, reply) ==
  IF reply.kind = "error" \/ ~reply.success
  THEN [outcome |-> "RuntimeError", session_id |-> s]
  ELSE IF reply.session_id = None
  THEN [outcome |-> "KeyError", session_id |-> s]
  ELSE [outcome |-> "returned", session_id |-> reply.session_id]

CreateSession ==
  /\ call = "galaxy_client"
  /\ Len(calls) < MaxCalls
  /\ \E reply \in Replies :
       LET r == create_session(session_id, reply)
       IN /\ session_id' = r.session_id
          /\ calls' = Append(calls,
                             Called("create_session", r.outcome,
                                    IF r.outcome = "returned"
                                    THEN r.session_id ELSE None, 1))
  /\ UNCHANGED <<call, args, pc, run, prev, locals, result, error, streams,
                 parallel, terra, genome>>

\* lines 77-99
UploadBam ==
  /\ call = "galaxy_client"
  /\ Len(calls) < MaxCalls
  /\ IF NoSession(session_id)
     THEN calls' = Append(calls, Called("upload_bam", "RuntimeError", None, 0))
     ELSE \E reply \in Replies :
            calls' = Append(calls,
                            Called("upload_bam",
                                   IF reply.kind = "error" \/ ~reply.success
                                   THEN "RuntimeError" ELSE "returned",
                                   None, 1))
  /\ UNCHANGED <<call, args, pc, run, prev, locals, result, error, streams,
                 parallel, terra, genome, session_id>>

\* lines 101-107
GetSessionUrl ==
  /\ call = "galaxy_client"
  /\ Len(calls) < MaxCalls
  /\ calls' = Append(calls,
                     IF NoSession(session_id)
                     THEN Called("get_session_url", "RuntimeError", None, 0)
                     ELSE Called("get_session_url", "returned",
                                 session_id, 0))
  /\ UNCHANGED <<call, args, pc, run, prev, locals, result, error, streams,
                 parallel, terra, genome, session_id>>

\* lines 109-115
GetSessionStats ==
  /\ call = "galaxy_client"
  /\ Len(calls) < MaxCalls
  /\ IF NoSession(session_id)
     THEN calls' = Append(calls,
                         Called("get_session_stats", "RuntimeError", None, 0))
     ELSE \E reply \in Replies :
            calls' = Append(calls,
                            Called("get_session_stats",
                                   IF reply.kind = "error"
                                   THEN "RuntimeError" ELSE "returned",
                                   None, 1))
  /\ UNCHANGED <<call, args, pc, run, prev, locals, result, error, streams,
                 parallel, terra, genome, session_id>>

(***************************************************************************)
(* generate_full_genome                                                    *)
(***************************************************************************)
\* results[chr_name] = {...}
DictSet(d, k, v) == [x \in DOMAIN d \cup {k} |-> IF x = k THEN v ELSE d[x]]

\* sum(r['particles'] for r in results.values())
RECURSIVE SumParticles(_, _)
SumParticles(d, keys) ==
  IF keys = {} THEN 0
  ELSE LET k == CHOOSE k \in keys : TRUE
       IN d[k].particles + SumParticles(d, keys \ {k})

\* the metadata of a chromosome of n particles
ChromosomeDetail(n, lod, elapsed) ==
  [particles |-> n,
   lod_levels |-> [k \in 1..Len(lod) |-> Min(n, lod[k])],
   generation_time |-> Round2(elapsed)]

\* a loop that ends at the first exception
ProcessChromosome_break ==
  /\ call = "generate_full_genome"
  /\ pc = "start"
  /\ Len(processed) < Len(args.chromosomes)
  /\ LET chr_name == args.chromosomes[Len(processed) + 1]
     IN \/ /\ processed' =
                Append(processed, [chr_name |-> chr_name, ok |-> FALSE,
                                   particles |-> 0])
               \o [i \in 1..(Len(args.chromosomes) - Len(processed) - 1) |->
                     [chr_name |-> args.chromosomes[Len(processed) + 1 + i],
                      ok |-> FALSE, particles |-> 0]]
           /\ stderr' = stderr \o <<<<"Generating", chr_name>>,
                                     <<"ERROR", chr_name>>>>
           /\ results' = results
        \/ \E n \in ParticleCounts, elapsed \in ElapsedChoices :
             /\ processed' =
                  Append(processed, [chr_name |-> chr_name, ok |-> TRUE,
                                     particles |-> n])
             /\ results' = DictSet(results, chr_name,
                                   ChromosomeDetail(n, args.lod_levels,
                                                    elapsed))
             /\ stderr' = Append(stderr, <<"Generating", chr_name>>)
  /\ UNCHANGED <<call, args, pc, run, prev, locals, result, error, stdout,
                 exit_code, parallel, terra, galaxy, summary>>

\* lines 166-181: one iteration of the loop over the chromosomes;
\* generate_chromosome_particles announces the chromosome on stderr (line
\* 64), then raises an Exception or returns the data
ProcessChromosome ==
  /\ call = "generate_full_genome"
  /\ pc = "start"
  /\ Len(processed) < Len(args.chromosomes)
  /\ LET chr_name == args.chromosomes[Len(processed) + 1]
     IN \/ /\ processed' =
                Append(processed, [chr_name |-> chr_name, ok |-> FALSE,
                                   particles |-> 0])
           /\ stderr' = stderr \o <<<<"Generating", chr_name>>,
                                     <<"ERROR", chr_name>>>>
           /\ results' = results
        \/ \E n \in ParticleCounts, elapsed \in ElapsedChoices :
             /\ processed' =
                  Append(processed, [chr_name |-> chr_name, ok |-> TRUE,
                                     particles |-> n])
             /\ results' = DictSet(results, chr_name,
                                   ChromosomeDetail(n, args.lod_levels,
                                                    elapsed))
             /\ stderr' = Append(stderr, <<"Generating", chr_name>>)
  /\ UNCHANGED <<call, args, pc, run, prev, locals, result, error, stdout,
                 exit_code, parallel, terra, galaxy, summary>>

\* lines 183-199: the loop is exhausted; write and return the summary
WriteSummary ==
  /\ call = "generate_full_genome"
  /\ pc = "start"
  /\ ~(Len(processed) < Len(args.chromosomes))
  /\ summary' = Some([genome |-> "GRCh38",
                      organism |-> "Homo sapiens",
                      chromosomes |-> Cardinality(DOMAIN results),
                      total_particles |-> SumParticles(results, DOMAIN results),
                      lod_levels |-> args.lod_levels,
                      chromosome_details |-> results])
  /\ result' = summary'
  /\ pc' = "done"
  /\ UNCHANGED <<call, args, run, prev, locals, error, streams, parallel,
                 terra, galaxy, results, processed>>

(***************************************************************************)
(* The functions invoked on their own                                      *)
(***************************************************************************)
Call3D ==
  /\ call = "sequence_to_3d"
  /\ pc = "start"
  /\ result' = Some(sequence_to_3d(args[1], args[2]))
  /\ pc' = "done"
  /\ UNCHANGED <<call, args, run, prev, locals, error, streams, parallel,
                 integrations>>

CallVoxel ==
  /\ call = "calculate_voxel_id"
  /\ pc = "start"
  /\ result' = Some(calculate_voxel_id(args[1], args[2], args[3]))
  /\ pc' = "done"
  /\ UNCHANGED <<call, args, run, prev, locals, error, streams, parallel,
                 integrations>>

CallLod ==
  /\ call = "generate_lod_levels"
  /\ pc = "start"
  /\ LET r == generate_lod_levels(args[1], args[2])
     IN IF r.err # "none"
        THEN Raise(r.err)
        ELSE /\ result' = Some(r.lod_levels)
             /\ pc' = "done"
             /\ error' = error
  /\ UNCHANGED <<call, args, run, prev, locals, streams, parallel,
                 integrations>>

\* lines 268-280: the particle the generation loop builds for one symbol
\* at one position of a sequence
CallLoopBody ==
  /\ call = "loop_body"
  /\ pc = "start"
  /\ result' = Some(particle_of(args[1], args[2]))
  /\ pc' = "done"
  /\ UNCHANGED <<call, args, run, prev, locals, error, streams, parallel,
                 integrations>>

CallRoot ==
  /\ call = "digital_root"
  /\ pc = "start"
  /\ result' = Some(digital_root(args[1]))
  /\ pc' = "done"
  /\ UNCHANGED <<call, args, run, prev, locals, error, streams, parallel,
                 integrations>>

CallBatch ==
  /\ call = "williams_batch_size"
  /\ pc = "start"
  /\ result' = Some(williams_batch_size(args[1]))
  /\ pc' = "done"
  /\ UNCHANGED <<call, args, run, prev, locals, error, streams, parallel,
                 integrations>>

Next ==
  \/ Begin
  \/ Step
  \/ GenerateLod
  \/ BuildOutput
  \/ Rerun
  \/ Call3D
  \/ CallVoxel
  \/ CallLod
  \/ CallRoot
  \/ CallBatch
  \/ CallLoopBody
  \/ MainPrint
  \/ MainExcept
  \/ Fork
  \/ \E w \in DOMAIN workers : WorkerStep(w)
  \/ Join
  \/ Attempt
  \/ LoopExhausted
  \/ CreateSession
  \/ UploadBam
  \/ GetSessionUrl
  \/ GetSessionStats
  \/ ProcessChromosome
  \/ WriteSummary

Spec == Init /\ [][Next]_vars

(***************************************************************************)
(* Properties                                                              *)
(***************************************************************************)
Returned(f) == call = f /\ pc = "done"

\* C1: for every position >= 0 and every symbol, recognised or not, each of
\* the three coordinates returned by sequence_to_3d is at least 0 and
\* strictly below 1.
C1_CoordinatesInUnitInterval ==
  Returned("sequence_to_3d") =>
    \A i \in 1..3 : 0 <= result[1][i] /\ result[1][i] < Scale

\* a negative radius * cos(theta) with no base offset: x wraps around to
\* just below 1
C1_Witness ==
  /\ Returned("sequence_to_3d")
  /\ args[1] = "A"
  /\ RadiusCos(args[2]) < 0
  /\ result[1][1] >= Scale - VOXEL_SIZE

MaxVoxelId == VoxelsPerAxis * VoxelsPerAxis * VoxelsPerAxis - 1

\* C2: the voxel id of every generated particle and every key of the
\* spatial hash is an integer in [0, 999999], and so is
\* calculate_voxel_id(x, y, z) for all coordinates in [0, 1)^3.
C2_VoxelIdInRange ==
  /\ \A i \in 1..Len(particles) :
       0 <= particles[i].voxel /\ particles[i].voxel <= MaxVoxelId
  /\ \A k \in DOMAIN spatial_hash : 0 <= k /\ k <= MaxVoxelId
  /\ Returned("calculate_voxel_id") =>
       (0 <= result[1] /\ result[1] <= MaxVoxelId)

\* the corner of the unit cube next to (1, 1, 1) has the largest id
C2_Witness ==
  /\ Returned("calculate_voxel_id")
  /\ args = <<Scale - 1, Scale - 1, Scale - 1>>
  /\ result[1] = MaxVoxelId

\* C3: given a total T and a target t >= T, the tier emitted is exactly
\* 0, 1, ..., T-1: every particle, ascending, no repeats.
C3_FullTierIsIdentity ==
  Returned("generate_lod_levels") =>
    \A k \in DOMAIN result[1] :
      args[2][k + 1] >= Len(args[1]) =>
        /\ Len(result[1][k]) = Len(args[1])
        /\ \A i \in 1..Len(result[1][k]) : result[1][k][i] = i - 1

\* a target strictly above a total of several particles
C3_Witness ==
  /\ Returned("generate_lod_levels")
  /\ Len(args[1]) >= 2
  /\ args[2] = <<Len(args[1]) + 1>>
  /\ Len(result[1][0]) = Len(args[1])

\* C4: given a total T and a positive target t < T, the tier emitted has
\* exactly t elements, is strictly ascending, and every element is in [0, T).
C4_SampledTierAscending ==
  Returned("generate_lod_levels") =>
    \A k \in DOMAIN result[1] :
      LET t == args[2][k + 1]
          tier == result[1][k]
      IN (0 < t /\ t < Len(args[1])) =>
           /\ Len(tier) = t
           /\ \A i \in 1..Len(tier) : 0 <= tier[i] /\ tier[i] < Len(args[1])
           /\ \A i \in 1..(Len(tier) - 1) : tier[i] < tier[i + 1]

\* total 30 and target 22, where the float product 11 * (30 / 22) falls
\* below 15 and the index emitted is 14
C4_Witness ==
  /\ Returned("generate_lod_levels")
  /\ Len(args[1]) = 30
  /\ args[2] = <<22>>
  /\ result[1][0][12] = 14
  /\ result[1][0][11] = 13

\* the first sequence of the file given to a run that read its file
FirstSequence == read_fasta(args.fasta).sequences[1].seq

\* C5: a successful run over effective length T returns exactly T
\* particles in ascending position order: the i-th particle (from 0) has
\* pos = i and base equal to the i-th symbol of the sequence, no position
\* skipped or duplicated.
C5_OneParticlePerPosition ==
  Returned("fasta_to_particles") =>
    LET out == result[1]
    IN /\ Len(out.particles) = out.metadata.length
       /\ \A i \in 1..Len(out.particles) :
            /\ out.particles[i].pos = i - 1
            /\ out.particles[i].base = FirstSequence[i]

StrictlyAscending(t) == \A i \in 1..(Len(t) - 1) : t[i] < t[i + 1]

\* C6: at the end of a run, and after every step of the generation pass,
\* the positions stored in each bucket of the spatial hash are in strictly
\* ascending order.
C6_BucketsAscending ==
  /\ \A k \in DOMAIN spatial_hash : StrictlyAscending(spatial_hash[k])
  /\ Returned("fasta_to_particles") =>
       \A t \in DOMAIN result[1].spatial_hash :
         StrictlyAscending(result[1].spatial_hash[t])

\* right after a step of the generation pass, a bucket with two positions
C6_Witness ==
  /\ call = "fasta_to_particles"
  /\ pc = "loop"
  /\ pos > 0
  /\ \E k \in DOMAIN spatial_hash : Len(spatial_hash[k]) >= 2

\* number of occurrences of v in the list t
Occurrences(t, v) == Cardinality({i \in 1..Len(t) : t[i] = v})

RECURSIVE SumOfLengths(_, _)
SumOfLengths(h, keys) ==
  IF keys = {} THEN 0
  ELSE LET k == CHOOSE k \in keys : TRUE
       IN Len(h[k]) + SumOfLengths(h, keys \ {k})

\* C7: in the spatial hash of a completed run over T positions, every
\* position in [0, T) appears in exactly one bucket and exactly once, that
\* bucket's key is the voxel id recorded on the particle at that position,
\* no bucket is empty, and the bucket sizes sum to T.
C7_HashPartitionsPositions ==
  Returned("fasta_to_particles") =>
    LET out == result[1]
        h == out.spatial_hash
        T == Len(out.particles)
    IN /\ \A p \in 0..(T - 1) :
            /\ Cardinality({t \in DOMAIN h : Occurrences(h[t], p) > 0}) = 1
            /\ Occurrences(h[str(out.particles[p + 1].voxel)], p) = 1
       /\ \A t \in DOMAIN h : Len(h[t]) > 0
       /\ SumOfLengths(h, DOMAIN h) = T

\* a completed run with several buckets, one of them with two positions
C7_Witness ==
  /\ Returned("fasta_to_particles")
  /\ Cardinality(DOMAIN result[1].spatial_hash) >= 2
  /\ \E t \in DOMAIN result[1].spatial_hash :
       Len(result[1].spatial_hash[t]) >= 2

\* C8: a second run on identical (sequence, maxElements, lodTargets), in
\* the same process, yields the same particle coordinates, spatial-hash
\* contents and LOD tables as the first, and fails exactly when the first
\* fails: the result does not depend on the earlier run.
C8_RunsAgree ==
  (call = "fasta_to_particles" /\ run > 1 /\ pc \in {"done", "failed"}) =>
    /\ error = prev[1].error
    /\ (result = None) = (prev[1].result = None)
    /\ pc = "done" =>
         /\ result[1].particles = prev[1].result[1].particles
         /\ result[1].spatial_hash = prev[1].result[1].spatial_hash
         /\ result[1].lod_levels = prev[1].result[1].lod_levels

\* a second run that returned particles, and took another time than the
\* first
C8_Witness ==
  /\ Returned("fasta_to_particles")
  /\ run = 2
  /\ Len(result[1].particles) >= 2
  /\ result[1].metadata.generation_time
       # prev[1].result[1].metadata.generation_time

\* the effective length as claimed: min(length, max) whenever a maximum
\* is supplied
ClaimedLength ==
  IF args.max_particles = None THEN Len(FirstSequence)
  ELSE Min(Len(FirstSequence), args.max_particles[1])

\* C9: the effective length T of a run is min(length(sequence),
\* maxElements) whenever maxElements is supplied, for every supplied
\* integer, and length(sequence) when it is omitted; the number of
\* particles and the metadata length both equal this T.
C9_EffectiveLength ==
  Returned("fasta_to_particles") =>
    /\ result[1].metadata.length = ClaimedLength
    /\ Len(result[1].particles) = ClaimedLength

\* C10: if the effective length T is 0, or no sequence was supplied, the
\* run fails with the empty-sequence error and returns no result.
C10_EmptyInputFails ==
  (/\ call = "fasta_to_particles"
   /\ pc \in {"done", "failed"}
   /\ read_fasta(args.fasta).err = "none"
   /\ (read_fasta(args.fasta).sequences = <<>> \/ ClaimedLength = 0)) =>
    (pc = "failed" /\ error = "ValueError" /\ result = None)

\* C11: for any non-empty input sequence the pipeline raises no error,
\* whatever the symbols and whatever the LOD target list (targets that are
\* zero or negative, targets in any order, an empty list): the
\* empty-sequence error is the only failure of the pipeline.
C11_NoErrorOnNonEmptySequence ==
  (/\ call = "fasta_to_particles"
   /\ read_fasta(args.fasta).err = "none"
   /\ read_fasta(args.fasta).sequences # <<>>
   /\ Len(FirstSequence) > 0) =>
    (pc # "failed" /\ error = "none")

\* the fixed alphabet
Alphabet == {"A", "C", "G", "T"}

\* x and y of the wildcard class at a position: base offset 4 * 0.02
WildcardXY(position) ==
  <<FloatMod(RadiusCos(position) + 4 * BaseOffsetStep, Scale),
    FloatMod(RadiusSin(position) + 4 * BaseOffsetStep, Scale)>>

\* C12: a symbol outside the fixed alphabet {A, C, G, T} is never
\* rejected: it is placed with the wildcard alphabet index 4 (base offset
\* 4 * 0.02, the same as N), its particle gets the neutral gray colour
\* [0.5, 0.5, 0.5], and a particle is produced for its position.
C12_UnknownSymbolIsWildcard ==
  /\ \A i \in 1..Len(particles) :
       particles[i].base \notin Alphabet =>
         /\ particles[i].color = Gray
         /\ particles[i].x = Round6(WildcardXY(particles[i].pos)[1])
         /\ particles[i].y = Round6(WildcardXY(particles[i].pos)[2])
         /\ particles[i].x = particle_of("N", particles[i].pos).x
         /\ particles[i].y = particle_of("N", particles[i].pos).y
  /\ Returned("sequence_to_3d") =>
       (Upper(args[1]) \notin Alphabet =>
          /\ result[1][1] = WildcardXY(args[2])[1]
          /\ result[1][2] = WildcardXY(args[2])[2])
  /\ Returned("fasta_to_particles") =>
       \A p \in 0..(seq_length - 1) :
         sequence[p + 1] \notin Alphabet =>
           /\ p + 1 <= Len(result[1].particles)
           /\ result[1].particles[p + 1].base = sequence[p + 1]
           /\ result[1].particles[p + 1].pos = p

\* a completed run with a particle for the symbol X away from position 0
C12_Witness ==
  /\ Returned("fasta_to_particles")
  /\ \E i \in 2..Len(result[1].particles) :
       /\ result[1].particles[i].base = "X"
       /\ result[1].particles[i].color = Gray

\* C13: digital_root(n) is in {1, ..., 9} for every position n >= 0.
C13_DigitalRootRange ==
  Returned("digital_root") => (1 <= result[1] /\ result[1] <= 9)

\* a positive multiple of 9, whose root is 9 and not 0
C13_Witness ==
  /\ Returned("digital_root")
  /\ args[1] = 18
  /\ result[1] = 9

\* C14: williams_batch_size(n) >= 1 for every integer n, and it is exactly
\* 1 for every n <= 0.
C14_BatchSizeAtLeastOne ==
  /\ Returned("williams_batch_size") =>
       /\ result[1] >= 1
       /\ args[1] <= 0 => result[1] = 1
  /\ Returned("fasta_to_particles") =>
       result[1].metadata.williams_batch_size >= 1

\* n = 1, where sqrt(n) * log2(n) is 0 and the lower limit applies
C14_Witness ==
  /\ Returned("williams_batch_size")
  /\ args[1] = 1
  /\ result[1] = 1

\* C15: williams_batch_size is monotonically non-decreasing on n >= 1: for
\* all integers 1 <= m <= n, williams_batch_size(m) <= williams_batch_size(n).
C15_BatchSizeMonotone ==
  Returned("williams_batch_size") =>
    \A m \in CountArgs :
      (1 <= m /\ m <= args[1]) => williams_batch_size(m) <= result[1]

\* two neighbours with the same batch size: 16 and 17 both give 16
C15_Witness ==
  /\ Returned("williams_batch_size")
  /\ args[1] = 17
  /\ result[1] = 16
  /\ williams_batch_size(16) = 16

\* 1.0 in the unit of the rounded coordinates
MicroScale == Scale \div MicroUnit

\* the stored coordinates of a particle are in [0, 1)
StoredInUnitInterval(p) ==
  /\ 0 <= p.x /\ p.x < MicroScale
  /\ 0 <= p.y /\ p.y < MicroScale
  /\ 0 <= p.z /\ p.z < MicroScale

\* C16: every particle record emitted by a run (the x, y, z stored in the
\* output, after rounding to 6 decimals) has each coordinate in [0, 1).
C16_StoredCoordinatesInUnitInterval ==
  /\ \A i \in 1..Len(particles) : StoredInUnitInterval(particles[i])
  /\ Returned("loop_body") => StoredInUnitInterval(result[1])

\* C17: the metadata of a successful run agrees with the data returned
\* beside it: length and particles both equal T (the number of particle
\* records), voxel_count equals the number of non-empty spatial-hash
\* buckets, williams_batch_size equals williams_batch_size(T), and
\* lod_levels lists the size of each LOD tier in tier order, one entry
\* per tier.
C17_MetadataAgreesWithData ==
  Returned("fasta_to_particles") =>
    LET out == result[1]
        m == out.metadata
        T == Len(out.particles)
    IN /\ m.length = T
       /\ m.particles = T
       /\ m.voxel_count =
            Cardinality({k \in DOMAIN out.spatial_hash :
                           out.spatial_hash[k] # <<>>})
       /\ m.williams_batch_size = williams_batch_size(T)
       /\ Len(m.lod_levels) = Cardinality(DOMAIN out.lod_levels)
       /\ \A k \in 1..Len(m.lod_levels) :
            m.lod_levels[k] = Len(out.lod_levels[str(k - 1)])

\* the lines of a stream that report an error
ErrorLines(stream) == {i \in 1..Len(stream) : stream[i][1] = "ERROR"}

\* C18: the command-line entry point exits with code 0 when the conversion
\* succeeds and with code 1 when any error is raised; on failure nothing at
\* all is written to the primary output stream (no partial JSON), and the
\* error message goes to the diagnostic stream only.
C18_ExitCodeAndStreams ==
  call = "main" =>
    /\ exit_code # None <=> pc = "exited"
    /\ (pc = "exited" /\ error = "none") =>
         /\ exit_code = Some(0)
         /\ Len(stdout) = 1
         /\ stdout[1].json = result[1]
         /\ ErrorLines(stderr) = {}
    /\ (pc = "exited" /\ error # "none") =>
         /\ exit_code = Some(1)
         /\ stdout = <<>>
         /\ ErrorLines(stderr) = {Len(stderr)}
         /\ stderr[Len(stderr)] = <<"ERROR", error>>
    /\ pc # "exited" => stdout = <<>>

\* a conversion that fails after its particles were generated: exit
\* status 1, the error on stderr, nothing on stdout
C18_Witness ==
  /\ call = "main"
  /\ pc = "exited"
  /\ error = "ZeroDivisionError"
  /\ Len(particles) > 0
  /\ exit_code = Some(1)
  /\ stdout = <<>>

\* C19: for a positive target t < T the i-th element (0 <= i < t) of the
\* emitted tier is floor(i * T / t) with T / t taken as real division; hence
\* the first element is 0 and every two consecutive elements differ by
\* either floor(T / t) or ceil(T / t).
C19_UniformStride ==
  Returned("generate_lod_levels") =>
    \A k \in DOMAIN result[1] :
      LET T == Len(args[1])
          t == args[2][k + 1]
          tier == result[1][k]
      IN (0 < t /\ t < T) =>
           /\ \A i \in 1..Len(tier) : tier[i] = ((i - 1) * T) \div t
           /\ tier[1] = 0
           /\ \A i \in 1..(Len(tier) - 1) :
                tier[i + 1] - tier[i] \in {T \div t, (T + t - 1) \div t}

\* a tier holds the same index twice
HasRepeatedIndex(tier) ==
  \E i, j \in 1..Len(tier) : i # j /\ tier[i] = tier[j]

\* C20 as stated: there exist a total T and a target t < T (with t close
\* to T) for which the emitted tier contains a repeated index, so that the
\* number of distinct positions in the tier is smaller than t.
C20_SomeTierRepeatsAnIndex ==
  Returned("generate_lod_levels") =>
    \E T \in 2..MaxTotal :
      \E t \in 1..(T - 1) : HasRepeatedIndex(LodTier(T, t))

\* C20, amended: for every total T and positive target t < T the emitted
\* tier holds t pairwise distinct positions; no index is repeated, however
\* close t is to T.
C20_NoTierRepeatsAnIndex ==
  Returned("generate_lod_levels") =>
    \A k \in DOMAIN result[1] :
      LET t == args[2][k + 1]
          tier == result[1][k]
      IN (0 < t /\ t < Len(args[1])) =>
           /\ ~HasRepeatedIndex(tier)
           /\ Cardinality({tier[i] : i \in 1..Len(tier)}) = t

\* the target closest to the largest total: every index but the last one
C20_Witness ==
  /\ Returned("generate_lod_levels")
  /\ Len(args[1]) = MaxTotal
  /\ args[2] = <<MaxTotal - 1>>
  /\ Cardinality({result[1][0][i] : i \in 1..Len(result[1][0])}) = MaxTotal - 1

\* C21: the LOD table has exactly one tier per supplied target, keyed
\* 0..k-1 in the order the targets were supplied, and tier i is determined
\* by (T, targets[i]) alone: changing, reordering or removing the other
\* targets never changes the index sequence produced for a given target.
C21_TiersResolvedIndependently ==
  Returned("generate_lod_levels") =>
    /\ DOMAIN result[1] = 0..(Len(args[2]) - 1)
    /\ \A k \in DOMAIN result[1] :
         \A l \in TargetLists :
           LET other == generate_lod_levels(args[1], l)
           IN other.err = "none" =>
                \A j \in 1..Len(l) :
                  l[j] = args[2][k + 1] =>
                    result[1][k] = other.lod_levels[j - 1]

\* the targets 5, 2 over more than 5 particles: two different tiers, each
\* the one its target gets when supplied alone
C21_Witness ==
  /\ Returned("generate_lod_levels")
  /\ Len(args[1]) > 5
  /\ args[2] = <<5, 2>>
  /\ result[1][0] # result[1][1]
  /\ result[1][0] = generate_lod_levels(args[1], <<5>>).lod_levels[0]
  /\ result[1][1] = generate_lod_levels(args[1], <<2>>).lod_levels[0]

\* C22: digital_root(0) = 9 and digital_root(n) = 1 + ((n - 1) mod 9) for
\* n >= 1, so the label is periodic with period 9, it does not depend on
\* the symbol, and digital_root(1) = 1, digital_root(10) = 1,
\* digital_root(123) = 6.
C22_DigitalRootPeriodic ==
  /\ Returned("digital_root") =>
       LET n == args[1]
           r == result[1]
       IN /\ n = 0 => r = 9
          /\ n >= 1 => r = 1 + ((n - 1) % 9)
          /\ digital_root(n + 9) = r
          /\ n = 1 => r = 1
          /\ n = 10 => r = 1
          /\ n = 123 => r = 6
  /\ Returned("sequence_to_3d") =>
       \A b \in AllSymbols :
         sequence_to_3d(b, args[2])[3] = result[1][3]

\* the documented example 123, whose root is 6
C22_Witness ==
  /\ Returned("digital_root")
  /\ args[1] = 123
  /\ result[1] = 6
  /\ digital_root(132) = 6

\* the grid cell of a point: floor(x / 0.01), floor(y / 0.01), floor(z / 0.01)
Cell(x, y, z) ==
  <<IntDiv(x, VOXEL_SIZE), IntDiv(y, VOXEL_SIZE), IntDiv(z, VOXEL_SIZE)>>

\* C23: for coordinates in [0, 1)^3, two points receive the same voxel id
\* if and only if they lie in the same grid cell (the same floor(x/0.01),
\* floor(y/0.01), floor(z/0.01), each in 0..99); the id
\* vx + 100*vy + 10000*vz is a one-to-one linearization of the grid.
C23_VoxelIdOneToOne ==
  Returned("calculate_voxel_id") =>
    LET c == Cell(args[1], args[2], args[3])
    IN /\ \A i \in 1..3 : 0 <= c[i] /\ c[i] < VoxelsPerAxis
       /\ result[1] % VoxelsPerAxis = c[1]
       /\ (result[1] \div VoxelsPerAxis) % VoxelsPerAxis = c[2]
       /\ result[1] \div (VoxelsPerAxis * VoxelsPerAxis) = c[3]
       /\ \A x, y, z \in AxisChoices :
            (calculate_voxel_id(x, y, z) = result[1]) <=> (Cell(x, y, z) = c)

\* C24: during the generation pass the spatial hash is append-only:
\* processing position p appends p to the end of exactly one bucket
\* (creating it if absent) and leaves every other bucket, and all earlier
\* members of that bucket, unchanged; no step removes or reorders an entry,
\* and the particle list likewise only grows by one at its end.
C24_AppendOnly ==
  [][(call \in Pipeline /\ pc = "loop") =>
       \/ /\ particles' = particles
          /\ spatial_hash' = spatial_hash
       \/ /\ pc' = "loop"
          /\ Len(particles') = Len(particles) + 1
          /\ SubSeq(particles', 1, Len(particles)) = particles
          /\ particles'[Len(particles')].pos = pos
          /\ DOMAIN spatial_hash \subseteq DOMAIN spatial_hash'
          /\ \E v \in DOMAIN spatial_hash' :
               /\ spatial_hash'[v] = Append(Bucket(spatial_hash, v), pos)
               /\ DOMAIN spatial_hash' = DOMAIN spatial_hash \cup {v}
               /\ \A k \in DOMAIN spatial_hash' \ {v} :
                    spatial_hash'[k] = spatial_hash[k]]_vars

\* the step that processed the last position has appended it to a bucket
\* that already had a member, beside other buckets
C24_Witness ==
  /\ call \in Pipeline
  /\ pc = "loop"
  /\ pos > 0
  /\ Cardinality(DOMAIN spatial_hash) >= 2
  /\ \E k \in DOMAIN spatial_hash :
       /\ Len(spatial_hash[k]) >= 2
       /\ spatial_hash[k][Len(spatial_hash[k])] = pos - 1

\* the particles of a sequential pass over the symbols seq
RunParticles(seq) == [i \in 1..Len(seq) |-> particle_of(seq[i], i - 1)]

\* the spatial hash of a sequential pass over the first n symbols of seq
RECURSIVE RunHash(_, _)
RunHash(seq, n) ==
  IF n <= 0 THEN NewSpatialHash
  ELSE HashAppend(RunHash(seq, n - 1),
                  particle_of(seq[n], n - 1).voxel, n - 1)

\* the members of a bucket that are positions below m
Below(bucket, m) ==
  LET keep(q) == q < m
  IN SelectSeq(bucket, keep)

\* C25: the particle produced for position p depends only on (symbol at p,
\* p): for any sequence S and any m with 1 <= m <= length(S), the run
\* truncated to m elements returns exactly the first m particles of the
\* untruncated run, and each of its spatial-hash buckets equals the
\* corresponding untruncated bucket restricted to positions < m.
C25_TruncationIsPrefix ==
  Returned("fasta_to_particles") =>
    LET S == FirstSequence
        full == RunHash(S, Len(S))
        out == result[1]
    IN /\ args.max_particles = None =>
            /\ out.particles = RunParticles(S)
            /\ out.spatial_hash = StrKeys(full)
       /\ (/\ args.max_particles # None
           /\ 1 <= args.max_particles[1]
           /\ args.max_particles[1] <= Len(S)) =>
            LET m == args.max_particles[1]
            IN /\ out.particles = SubSeq(RunParticles(S), 1, m)
               /\ \A k \in DOMAIN full :
                    Below(full[k], m) # <<>> =>
                      /\ str(k) \in DOMAIN out.spatial_hash
                      /\ out.spatial_hash[str(k)] = Below(full[k], m)
               /\ \A t \in DOMAIN out.spatial_hash :
                    \E k \in DOMAIN full :
                      str(k) = t /\ Below(full[k], m) # <<>>

\* a run truncated inside a bucket: the untruncated bucket has a member
\* below m and a member at or above m
C25_Witness ==
  /\ Returned("fasta_to_particles")
  /\ args.max_particles # None
  /\ 1 <= args.max_particles[1]
  /\ args.max_particles[1] < Len(FirstSequence)
  /\ Len(result[1].particles) = args.max_particles[1]
  /\ \E k \in DOMAIN RunHash(FirstSequence, Len(FirstSequence)) :
       LET b == RunHash(FirstSequence, Len(FirstSequence))[k]
       IN /\ Below(b, args.max_particles[1]) # <<>>
          /\ Below(b, args.max_particles[1]) # b

\* C26: if [0, T) is split into contiguous ranges computed by independent
\* workers that finish in any order, then concatenating particles in
\* ascending-range order and merging each bucket by a position-keyed stable
\* merge (or a per-bucket sort) yields exactly the particles and spatial
\* hash of the single sequential pass, with every bucket ascending; a merge
\* that appends worker results in completion order can produce a bucket
\* that is not ascending.
C26_OrderedMergeIsSequential ==
  (Returned("partitioned_pass") /\ args.merge \in {"stable_merge", "sort"}) =>
    /\ result[1].particles = RunParticles(args.sequence)
    /\ result[1].spatial_hash = RunHash(args.sequence, Len(args.sequence))
    /\ \A k \in DOMAIN result[1].spatial_hash :
         StrictlyAscending(result[1].spatial_hash[k])

\* the worker of the last range completed first and the buckets were
\* appended in completion order: a bucket is not ascending
C26_Witness ==
  /\ Returned("partitioned_pass")
  /\ args.merge = "completion_order"
  /\ finished[1] = Len(workers)
  /\ \E k \in DOMAIN result[1].spatial_hash :
       ~StrictlyAscending(result[1].spatial_hash[k])

\* the voxel id of the stored, rounded coordinates of a particle
VoxelOfStored(p) ==
  calculate_voxel_id(p.x * MicroUnit, p.y * MicroUnit, p.z * MicroUnit)

\* C27: for every emitted particle, the voxel field equals the voxel id of
\* the grid cell that contains the particle's emitted (x, y, z):
\* calculate_voxel_id applied to the stored coordinates gives the stored
\* voxel.
C27_VoxelMatchesStoredCoordinates ==
  /\ \A i \in 1..Len(particles) : particles[i].voxel = VoxelOfStored(particles[i])
  /\ Returned("loop_body") => result[1].voxel = VoxelOfStored(result[1])

\* the requests of a list of outcomes that failed
Failures(t) == {i \in 1..Len(t) : t[i] = "RequestException"}

\* C28: _make_request makes at most max_retries attempts: it returns the
\* response of the first attempt that succeeds and makes no further attempt
\* after it; if max_retries consecutive attempts fail it raises
\* GenomeVedicAPIError; between failed attempt k (0-indexed) and the next
\* attempt it waits 2^k seconds, and it does not wait after the final
\* failed attempt.
C28_RetryWithBackoff ==
  call = "_make_request" =>
    /\ Len(sent) <= Max(args.max_retries, 0)
    /\ \A i \in 1..(Len(sent) - 1) : sent[i] = "RequestException"
    /\ \A k \in 1..Len(slept) : slept[k] = 2 ^ (k - 1)
    /\ pc = "start" => (Failures(sent) = DOMAIN sent /\ Len(slept) = Len(sent))
    /\ pc = "done" =>
         /\ sent[Len(sent)] = "response"
         /\ result = Some(<<"response", Len(sent) - 1>>)
         /\ Len(slept) = Len(sent) - 1
    /\ pc = "failed" =>
         /\ error = "GenomeVedicAPIError"
         /\ Failures(sent) = DOMAIN sent
         /\ Len(sent) = Max(args.max_retries, 0)
         /\ Len(slept) = Max(Len(sent) - 1, 0)

\* three attempts failed: waits of 1 and 2 seconds between them, none after
\* the last
C28_Witness ==
  /\ call = "_make_request"
  /\ pc = "failed"
  /\ args.max_retries = 3
  /\ Len(sent) = 3
  /\ slept = <<1, 2>>

\* a create_session among the first n calls returned
CreatedBefore(n) ==
  \E j \in 1..n :
    calls[j].method = "create_session" /\ calls[j].outcome = "returned"

\* the id returned by the last create_session that returned, or None
LastCreated ==
  IF CreatedBefore(Len(calls))
  THEN LET j == CHOOSE j \in 1..Len(calls) :
                  /\ calls[j].method = "create_session"
                  /\ calls[j].outcome = "returned"
                  /\ \A i \in (j + 1)..Len(calls) :
                       ~(calls[i].method = "create_session"
                           /\ calls[i].outcome = "returned")
       IN calls[j].value
  ELSE None

\* C29: in the Galaxy client, after any sequence of calls, upload_bam,
\* get_session_url and get_session_stats raise RuntimeError without
\* sending a request unless an earlier create_session call succeeded;
\* session_id is set only by a successful create_session and a failed
\* create_session leaves it unchanged.
C29_SessionRequired ==
  call = "galaxy_client" =>
    /\ \A i \in 1..Len(calls) :
         (calls[i].method # "create_session" /\ ~CreatedBefore(i - 1)) =>
           (calls[i].outcome = "RuntimeError" /\ calls[i].requests = 0)
    /\ session_id = LastCreated

\* upload_bam before any session raised without a request; a session was
\* then created, and a create_session that failed afterwards left its id
C29_Witness ==
  /\ call = "galaxy_client"
  /\ Len(calls) = 3
  /\ calls[1] = Called("upload_bam", "RuntimeError", None, 0)
  /\ calls[2] = Called("create_session", "returned", Some("s1"), 1)
  /\ calls[3].method = "create_session"
  /\ calls[3].outcome = "KeyError"
  /\ session_id = Some("s1")

\* the chromosomes whose processing was started, as announced on stderr
Started ==
  LET announced(l) == l[1] = "Generating"
  IN SelectSeq(stderr, announced)

\* the chromosomes whose processing succeeded
Succeeded == {processed[i].chr_name : i \in {j \in DOMAIN processed : processed[j].ok}}

\* the particle count of the last success of the chromosome c
LastCount(c) ==
  LET j == CHOOSE j \in DOMAIN processed :
             /\ processed[j].chr_name = c
             /\ processed[j].ok
             /\ \A i \in (j + 1)..Len(processed) :
                  ~(processed[i].chr_name = c /\ processed[i].ok)
  IN processed[j].particles

RECURSIVE SumOfCounts(_)
SumOfCounts(cs) ==
  IF cs = {} THEN 0
  ELSE LET c == CHOOSE c \in cs : TRUE
       IN LastCount(c) + SumOfCounts(cs \ {c})

\* C30: in generate_full_genome, a failure while processing one chromosome
\* does not stop the run: every remaining chromosome in the list is still
\* processed in order, the summary is always written, its chromosome count
\* and chromosome_details cover exactly the chromosomes that succeeded, and
\* total_particles is the sum of their particle counts.
C30_FailuresAreSkipped ==
  call = "generate_full_genome" =>
    /\ pc \in {"start", "done"}
    /\ Len(processed) <= Len(args.chromosomes)
    /\ \A i \in DOMAIN processed : processed[i].chr_name = args.chromosomes[i]
    /\ Len(Started) = Len(processed)
    /\ \A i \in DOMAIN Started : Started[i][2] = args.chromosomes[i]
    /\ pc = "done" =>
         /\ Len(processed) = Len(args.chromosomes)
         /\ summary # None
         /\ summary[1].chromosomes = Cardinality(Succeeded)
         /\ DOMAIN summary[1].chromosome_details = Succeeded
         /\ \A c \in Succeeded :
              summary[1].chromosome_details[c].particles = LastCount(c)
         /\ summary[1].total_particles = SumOfCounts(Succeeded)

\* the first chromosome failed, a later one succeeded with particles, and
\* the summary counts it
C30_Witness ==
  /\ call = "generate_full_genome"
  /\ pc = "done"
  /\ Len(processed) >= 2
  /\ ~processed[1].ok
  /\ processed[2].ok
  /\ summary[1].chromosomes >= 1
  /\ summary[1].total_particles > 0

====
